---------------------------- MODULE Spec2Model ----------------------------
(***************************************************************************)
(* A model of sendnotification.py: the JSON configuration loader, the      *)
(* validator, the dispatcher loop of SendNotification.send, the interval   *)
(* guard (check_interval, three Redis round trips GET / SET / EXPIRE) and  *)
(* the two service adapters (send_pushover, send_email).                   *)
(*                                                                         *)
(* Text values (setting values, the message) are sequences of one          *)
(* character strings so that str.strip() is computed; names (service       *)
(* titles, setting keys, error messages) are strings.                      *)
(*                                                                         *)
(* Redis answers every GET, SET and EXPIRE (a round trip that raises is an *)
(* adapter that raises before its outbound call); intervals are whole      *)
(* seconds; time is a clock of whole seconds that Redis expires keys by.   *)
(***************************************************************************)
EXTENDS Integers, Sequences, FiniteSets, TLC

(***************************************************************************)
(* Bounds of the model.                                                    *)
(***************************************************************************)
\* longest "services" array of a configuration file
MaxServices == 2
\* the clock runs from 0 to MaxTime
MaxTime == 3
\* the largest interval (seconds) a caller passes
MaxInterval == 2

(***************************************************************************)
(* Text helpers.                                                           *)
(***************************************************************************)
Whitespace == {" ", "\t", "\n"}

RECURSIVE LStrip(_)
LStrip(s) ==
    IF s # <<>> /\ Head(s) \in Whitespace THEN LStrip(Tail(s)) ELSE s

RECURSIVE RStrip(_)
RStrip(s) ==
    IF s # <<>> /\ s[Len(s)] \in Whitespace
    THEN RStrip(SubSeq(s, 1, Len(s) - 1))
    ELSE s

\* str.strip()
Strip(s) == RStrip(LStrip(s))

\* "".join(chars): the text as one string
RECURSIVE Join(_)
Join(s) == IF s = <<>> THEN "" ELSE Head(s) \o Join(Tail(s))

(***************************************************************************)
(* Settings: an ordered dict, modelled as a sequence of <<key, value>>.    *)
(***************************************************************************)
HasKey(settings, k) == \E i \in 1..Len(settings) : settings[i][1] = k

Lookup(settings, k) ==
    settings[CHOOSE i \in 1..Len(settings) : settings[i][1] = k][2]

\* a tuple as a set
TupleSet(t) == {t[i] : i \in 1..Len(t)}

(***************************************************************************)
(* The program's constants.                                                *)
(***************************************************************************)
SERVICES == <<"email", "pushover">>

RequiredSettings(service) ==
    IF service = "pushover" THEN <<"app_token", "api_key">>
    ELSE IF service = "email" THEN <<"subject", "to">>
    ELSE <<>>

OptionalSettings(service) ==
    IF service = "pushover" THEN <<"title">>
    ELSE IF service = "email" THEN <<"sender">>
    ELSE <<>>

(***************************************************************************)
(* read_config_file: the "services" array of {title, settings} objects is  *)
(* rewritten into a mapping title -> settings (a later entry of the same   *)
(* title overwrites an earlier one) plus the ordered list of titles.       *)
(***************************************************************************)
LastIndexOf(raw, title) ==
    CHOOSE i \in 1..Len(raw) :
        /\ raw[i].title = title
        /\ \A j \in (i + 1)..Len(raw) : raw[j].title # title

ReadConfigFile(raw) ==
    [services |-> [i \in 1..Len(raw) |-> raw[i].title],
     settings |-> [t \in {raw[i].title : i \in 1..Len(raw)} |->
                      raw[LastIndexOf(raw, t)].settings]]

(***************************************************************************)
(* validate_service_settings and validate_config.  The result is "ok" or   *)
(* the message of the SendNotificationError raised first.                  *)
(***************************************************************************)
OK == "ok"

MissingSetting(service, setting) ==
    "Missing setting for " \o service \o " " \o setting

UnknownSetting(service, setting) ==
    "Unknown setting for " \o service \o " " \o setting

InvalidService(service) == "Invalid service " \o service

MissingServices == "Missing services, at least one is needed"

\* IsMissing without strip(): a value of blanks counts as given
IsMissingNoStrip(settings, setting) ==
    \/ ~HasKey(settings, setting)
    \/ Lookup(settings, setting) = <<>>

\* line 100-103: the setting is absent or blank after strip()
IsMissing(settings, setting) ==
    \/ ~HasKey(settings, setting)
    \/ Strip(Lookup(settings, setting)) = <<>>

\* ValidateServiceSettings with its two loops in the other order: unknown
\* settings are reported before missing ones
ValidateUnknownFirst(config, service) ==
    LET settings == config.settings[service]
        required == RequiredSettings(service)
        valid    == TupleSet(required) \cup TupleSet(OptionalSettings(service))
        missing  == {i \in 1..Len(required) : IsMissing(settings, required[i])}
        unknown  == {i \in 1..Len(settings) : settings[i][1] \notin valid}
        Min(S)   == CHOOSE m \in S : \A n \in S : m <= n
    IN  IF unknown # {}
        THEN UnknownSetting(service, settings[Min(unknown)][1])
        ELSE IF missing # {}
             THEN MissingSetting(service, required[Min(missing)])
        ELSE OK

ValidateServiceSettings(config, service) ==
    LET settings == config.settings[service]
        required == RequiredSettings(service)
        valid    == TupleSet(required) \cup TupleSet(OptionalSettings(service))
        missing  == {i \in 1..Len(required) : IsMissing(settings, required[i])}
        unknown  == {i \in 1..Len(settings) : settings[i][1] \notin valid}
        Min(S)   == CHOOSE m \in S : \A n \in S : m <= n
    IN  IF missing # {} THEN MissingSetting(service, required[Min(missing)])
        ELSE IF unknown # {}
             THEN UnknownSetting(service, settings[Min(unknown)][1])
        ELSE OK

RECURSIVE ValidateFrom(_, _)
ValidateFrom(config, i) ==
    IF i > Len(config.services) THEN OK
    ELSE LET service == config.services[i]
         IN  IF service \notin TupleSet(SERVICES) THEN InvalidService(service)
             ELSE LET r == ValidateServiceSettings(config, service)
                  IN  IF r # OK THEN r ELSE ValidateFrom(config, i + 1)

ValidateConfig(config) ==
    IF Len(config.services) = 0 THEN MissingServices
    ELSE ValidateFrom(config, 1)

(***************************************************************************)
(* The configuration files the validator is checked on: every "services"   *)
(* array of at most MaxServices entries, an entry being a title and, for   *)
(* a supported title, settings that give each required key no value, a     *)
(* blank value or a value, with or without the optional key and a key the  *)
(* service does not know.                                                  *)
(***************************************************************************)
Absent == <<"absent">>

RequiredValues == {Absent, <<" ">>, <<"k", " ">>}

ExtraKeys(service) == {<<>>, <<OptionalSettings(service)[1]>>, <<"sound">>}

\* the settings with the keys of `keys` that `val` gives a value, in order
RECURSIVE Pairs(_, _)
Pairs(keys, val) ==
    IF keys = <<>> THEN <<>>
    ELSE IF val[Head(keys)] = Absent THEN Pairs(Tail(keys), val)
    ELSE <<<<Head(keys), val[Head(keys)]>>>> \o Pairs(Tail(keys), val)

SettingsOf(service) ==
    LET required == RequiredSettings(service)
    IN  {Pairs(required \o extra,
               [k \in TupleSet(required \o extra) |->
                   IF k \in TupleSet(required) THEN val[k] ELSE <<"x">>]) :
            val \in [TupleSet(required) -> RequiredValues],
            extra \in ExtraKeys(service)}

Entries ==
    {[title |-> "sms", settings |-> <<>>]}
    \cup {[title |-> t, settings |-> s] : t \in {"pushover"}, s \in SettingsOf("pushover")}
    \cup {[title |-> t, settings |-> s] : t \in {"email"}, s \in SettingsOf("email")}

SeqsUpTo(S, n) == UNION {[1..m -> S] : m \in 0..n}

RawConfigs == SeqsUpTo(Entries, MaxServices)

(***************************************************************************)
(* The configuration files send is checked on.                             *)
(***************************************************************************)
PushoverOk ==
    [title |-> "pushover",
     settings |-> <<<<"app_token", <<"t">>>>, <<"api_key", <<"u">>>>>>]

EmailOk ==
    [title |-> "email",
     settings |-> <<<<"subject", <<"s">>>>, <<"to", <<"r">>>>>>]

EmailNoTo == [title |-> "email", settings |-> <<<<"subject", <<"s">>>>>>]

Sms == [title |-> "sms", settings |-> <<>>]

SendEntries == {PushoverOk, EmailOk, EmailNoTo, Sms}

SendConfigs == {ReadConfigFile(raw) : raw \in SeqsUpTo(SendEntries, MaxServices)}

\* the message arguments: empty, blank, and one with text
Messages == {<<>>, <<" ", "\n">>, <<" ", "h", "i", " ">>}

\* the interval arguments: 0 stands for both None and 0 (both falsy), then
\* one second and the longest interval
Intervals == {0, 1, MaxInterval}

Senders == {1, 2}

EmptyMessage == "Message can not be empty"

NoneSent == "No notification could be sent"

(***************************************************************************)
(* The interval key of check_interval (lines 175-183).  The key is the     *)
(* module name and the SHA-1 digest of the concatenation of the service,   *)
(* str(interval) and the notification's values; the digest is kept         *)
(* symbolic (no two texts of the model share a digest).                    *)
(***************************************************************************)
Sha1Hex(text) == "sha1(" \o text \o ")"

RECURSIVE JoinValues(_)
JoinValues(values) ==
    IF values = <<>> THEN "" ELSE Join(Head(values)) \o JoinValues(Tail(values))

IntervalKey(service, interval, notification) ==
    "sendnotification:"
        \o Sha1Hex(service \o ToString(interval) \o JoinValues(notification))

\* `if title:` / `if sender:` -- the optional setting is given and not ""
Truthy(settings, k) == HasKey(settings, k) /\ Lookup(settings, k) # <<>>

\* the values of the notification dict an adapter builds, in insertion order
Notification(service, settings, msg) ==
    LET required == RequiredSettings(service)
        optional == OptionalSettings(service)[1]
    IN  <<Lookup(settings, required[1]), Lookup(settings, required[2]), msg>>
        \o (IF Truthy(settings, optional)
            THEN <<Lookup(settings, optional)>> ELSE <<>>)

VARIABLES
    config,     \* self.config after construction
    vresult,    \* outcome of a direct call of validate_config
    senders,    \* the sender processes that run
    pc,         \* each sender's position
    call,       \* each sender's current arguments: message, interval
    idx,        \* each sender's position in config["services"] (send's loop)
    key,        \* the interval key of the adapter a sender is in
    attempts,   \* this call's adapter invocations, in order, with what each did
    storeOps,   \* Redis round trips made during this call
    result,     \* what the call returned or the error it raised
    store,      \* Redis: key -> expiry time, or NoTTL
    now,        \* the clock (seconds)
    grants      \* the allowed checks whose interval window is still open

vars == <<config, vresult, senders, pc, call, idx, key, attempts, storeOps,
          result, store, now, grants>>

sendVars == <<senders, pc, call, idx, key, attempts, storeOps, result, store,
              now, grants>>

NoTTL == -1

NoCall == [message |-> <<>>, interval |-> 0]

\* r.get(key) is truthy: the key is set and has not expired
KeyExists(k) ==
    /\ k \in DOMAIN store
    /\ store[k] = NoTTL \/ now < store[k]

InitSenders ==
    /\ pc = [p \in Senders |-> "idle"]
    /\ call = [p \in Senders |-> NoCall]
    /\ idx = [p \in Senders |-> 0]
    /\ key = [p \in Senders |-> ""]
    /\ attempts = [p \in Senders |-> <<>>]
    /\ storeOps = [p \in Senders |-> 0]
    /\ result = [p \in Senders |-> "none"]
    /\ store = <<>>
    /\ now = 0
    /\ grants = {}

InitValidate ==
    /\ config \in {ReadConfigFile(raw) : raw \in RawConfigs}
    /\ vresult = "none"
    /\ senders = {}
    /\ InitSenders

\* a call of validate_config()
Validate ==
    /\ vresult = "none"
    /\ vresult' = ValidateConfig(config)
    /\ UNCHANGED <<config, sendVars>>

NextValidate == Validate

SpecValidate == InitValidate /\ [][NextValidate]_vars

(***************************************************************************)
(* send (lines 116-160), one sender p.                                     *)
(***************************************************************************)
\* Precheck with the message checked before the configuration
PrecheckMessageFirst(cfg, message) ==
    IF Strip(message) = <<>> THEN EmptyMessage
    ELSE IF ValidateConfig(cfg) # OK THEN ValidateConfig(cfg)
    ELSE OK

\* lines 122-126: what send does before its loop
Precheck(cfg, message) ==
    IF ValidateConfig(cfg) # OK THEN ValidateConfig(cfg)
    ELSE IF Strip(message) = <<>> THEN EmptyMessage
    ELSE OK

NewAttempt(i, service) ==
    [index |-> i, service |-> service, guard |-> "none", post |-> "none",
     outcome |-> "running"]

Last(p) == attempts[p][Len(attempts[p])]

SetLast(p, field, value) ==
    [attempts EXCEPT ![p][Len(attempts[p])] =
        [f \in DOMAIN @ |-> IF f = field THEN value ELSE @[f]]]

\* SendRaise with the interval key looked up before the checks
SendRaiseAfterGet(p) ==
    /\ pc[p] \in {"idle", "done"}
    /\ \E m \in Messages, i \in Intervals :
        /\ Precheck(config, m) # OK
        /\ call' = [call EXCEPT ![p] = [message |-> m, interval |-> i]]
        /\ result' = [result EXCEPT ![p] = Precheck(config, m)]
        /\ storeOps' = [storeOps EXCEPT ![p] = IF i # 0 THEN 1 ELSE 0]
    /\ pc' = [pc EXCEPT ![p] = "done"]
    /\ idx' = [idx EXCEPT ![p] = 0]
    /\ key' = [key EXCEPT ![p] = ""]
    /\ attempts' = [attempts EXCEPT ![p] = <<>>]
    /\ UNCHANGED <<config, vresult, senders, store, now, grants>>

\* send raises before its loop: validate_config or the empty message
SendRaise(p) ==
    /\ pc[p] \in {"idle", "done"}
    /\ \E m \in Messages, i \in Intervals :
        /\ Precheck(config, m) # OK
        /\ call' = [call EXCEPT ![p] = [message |-> m, interval |-> i]]
        /\ result' = [result EXCEPT ![p] = Precheck(config, m)]
    /\ pc' = [pc EXCEPT ![p] = "done"]
    /\ idx' = [idx EXCEPT ![p] = 0]
    /\ key' = [key EXCEPT ![p] = ""]
    /\ attempts' = [attempts EXCEPT ![p] = <<>>]
    /\ storeOps' = [storeOps EXCEPT ![p] = 0]
    /\ UNCHANGED <<config, vresult, senders, store, now, grants>>

\* send passes its checks and enters the loop (line 128-129)
SendStart(p) ==
    /\ pc[p] \in {"idle", "done"}
    /\ \E m \in Messages, i \in Intervals :
        /\ Precheck(config, m) = OK
        /\ call' = [call EXCEPT ![p] = [message |-> Strip(m), interval |-> i]]
    /\ pc' = [pc EXCEPT ![p] = "loop"]
    /\ idx' = [idx EXCEPT ![p] = 1]
    /\ key' = [key EXCEPT ![p] = ""]
    /\ attempts' = [attempts EXCEPT ![p] = <<>>]
    /\ storeOps' = [storeOps EXCEPT ![p] = 0]
    /\ result' = [result EXCEPT ![p] = "none"]
    /\ UNCHANGED <<config, vresult, senders, store, now, grants>>

(***************************************************************************)
(* An adapter up to its interval check (send_pushover lines 202-221,       *)
(* send_email lines 255-275): the notification is built and, with a truthy *)
(* interval, check_interval is entered; otherwise the outbound call is     *)
(* next.                                                                   *)
(***************************************************************************)
EnterAdapter(p, prior, i, service, message, interval) ==
    /\ attempts' = [attempts EXCEPT ![p] = Append(prior, NewAttempt(i, service))]
    /\ key' = [key EXCEPT ![p] =
                 IF interval # 0
                 THEN IntervalKey(service, interval,
                          Notification(service, config.settings[service], message))
                 ELSE ""]
    /\ pc' = [pc EXCEPT ![p] = IF interval # 0 THEN "get" ELSE "post"]

\* one iteration of send's loop (lines 129-149): the next service's adapter
SendLoop(p) ==
    /\ pc[p] = "loop"
    /\ idx[p] <= Len(config.services)
    /\ EnterAdapter(p, attempts[p], idx[p], config.services[idx[p]],
                    call[p].message, call[p].interval)
    /\ UNCHANGED <<config, vresult, senders, call, idx, storeOps, result,
                   store, now, grants>>

(***************************************************************************)
(* check_interval (lines 185-200): GET, then SET and EXPIRE.               *)
(***************************************************************************)
\* line 188-193: the key exists, the check returns False and so the adapter
GetHit(p) ==
    /\ pc[p] = "get"
    /\ KeyExists(key[p])
    /\ storeOps' = [storeOps EXCEPT ![p] = @ + 1]
    /\ attempts' = SetLast(p, "guard", "hit")
    /\ pc' = [pc EXCEPT ![p] = "ret_false"]
    /\ UNCHANGED <<config, vresult, senders, call, idx, key, result, store,
                   now, grants>>

\* GetMiss with the answer of GET ignored
GetMissUnchecked(p) ==
    /\ pc[p] = "get"
    /\ storeOps' = [storeOps EXCEPT ![p] = @ + 1]
    /\ attempts' = SetLast(p, "guard", "miss")
    /\ pc' = [pc EXCEPT ![p] = "set"]
    /\ UNCHANGED <<config, vresult, senders, call, idx, key, result, store,
                   now, grants>>

\* line 188: the key does not exist
GetMiss(p) ==
    /\ pc[p] = "get"
    /\ ~KeyExists(key[p])
    /\ storeOps' = [storeOps EXCEPT ![p] = @ + 1]
    /\ attempts' = SetLast(p, "guard", "miss")
    /\ pc' = [pc EXCEPT ![p] = "set"]
    /\ UNCHANGED <<config, vresult, senders, call, idx, key, result, store,
                   now, grants>>

\* the store with key k given value v
StorePut(k, v) ==
    [x \in DOMAIN store \cup {k} |-> IF x = k THEN v ELSE store[x]]

\* line 197: r.set(interval_key, 1); SET leaves the key without expiry
SetKey(p) ==
    /\ pc[p] = "set"
    /\ store' = StorePut(key[p], NoTTL)
    /\ storeOps' = [storeOps EXCEPT ![p] = @ + 1]
    /\ pc' = [pc EXCEPT ![p] = "expire"]
    /\ UNCHANGED <<config, vresult, senders, call, idx, key, attempts, result,
                   now, grants>>

\* Expire without the EXPIRE call: the key stays without expiry
ExpireSkipped(p) ==
    /\ pc[p] = "expire"
    /\ store' = store
    /\ storeOps' = [storeOps EXCEPT ![p] = @ + 1]
    /\ grants' = grants \cup
          {[key |-> key[p], sender |-> p, time |-> now,
            interval |-> call[p].interval, post |-> "pending"]}
    /\ pc' = [pc EXCEPT ![p] = "post"]
    /\ UNCHANGED <<config, vresult, senders, call, idx, key, attempts, result,
                   now>>

\* line 198-200: r.expire(interval_key, interval); the check returns True
Expire(p) ==
    /\ pc[p] = "expire"
    /\ store' = IF KeyExists(key[p])
                THEN StorePut(key[p], now + call[p].interval)
                ELSE store
    /\ storeOps' = [storeOps EXCEPT ![p] = @ + 1]
    /\ grants' = grants \cup
          {[key |-> key[p], sender |-> p, time |-> now,
            interval |-> call[p].interval, post |-> "pending"]}
    /\ pc' = [pc EXCEPT ![p] = "post"]
    /\ UNCHANGED <<config, vresult, senders, call, idx, key, attempts, result,
                   now>>

(***************************************************************************)
(* The outbound call of an adapter (send_pushover lines 223-253: the POST  *)
(* answers 200 or the adapter raises; send_email lines 277-292: sendmail   *)
(* returns or raises).                                                     *)
(***************************************************************************)
Pending(p) == {g \in grants : g.sender = p /\ g.post = "pending"}

Settle(p, how) ==
    (grants \ Pending(p)) \cup {[g EXCEPT !.post = how] : g \in Pending(p)}

\* the outbound call succeeds: the POST answers 200 (lines 245-253), or
\* sendmail returns (line 287) and quit() is next
PostOk(p) ==
    /\ pc[p] = "post"
    /\ attempts' = SetLast(p, "post", "ok")
    /\ grants' = Settle(p, "ok")
    /\ pc' = [pc EXCEPT ![p] =
                IF Last(p).service = "email" THEN "quit" ELSE "ret_true"]
    /\ UNCHANGED <<config, vresult, senders, call, idx, key, storeOps, result,
                   store, now>>

\* PostFail with the response status not checked: the adapter returns True
PostFailIgnored(p) ==
    /\ pc[p] = "post"
    /\ attempts' = SetLast(p, "post", "fail")
    /\ grants' = Settle(p, "fail")
    /\ pc' = [pc EXCEPT ![p] = "ret_true"]
    /\ UNCHANGED <<config, vresult, senders, call, idx, key, storeOps, result,
                   store, now>>

\* PostFail that deletes the interval key when the delivery fails
PostFailRelease(p) ==
    /\ pc[p] = "post"
    /\ attempts' = SetLast(p, "post", "fail")
    /\ grants' = Settle(p, "fail")
    /\ store' = [k \in DOMAIN store \ {key[p]} |-> store[k]]
    /\ pc' = [pc EXCEPT ![p] = "ret_raise"]
    /\ UNCHANGED <<config, vresult, senders, call, idx, key, storeOps, result,
                   now>>

\* the outbound call fails: a status other than 200, or an exception
PostFail(p) ==
    /\ pc[p] = "post"
    /\ attempts' = SetLast(p, "post", "fail")
    /\ grants' = Settle(p, "fail")
    /\ pc' = [pc EXCEPT ![p] = "ret_raise"]
    /\ UNCHANGED <<config, vresult, senders, call, idx, key, storeOps, result,
                   store, now>>

\* send_email lines 288-292: s.quit() returns and the adapter returns True
QuitOk(p) ==
    /\ pc[p] = "quit"
    /\ pc' = [pc EXCEPT ![p] = "ret_true"]
    /\ UNCHANGED <<config, vresult, senders, call, idx, key, attempts,
                   storeOps, result, store, now, grants>>

\* send_email line 288: s.quit() raises after the mail was handed over
QuitFail(p) ==
    /\ pc[p] = "quit"
    /\ pc' = [pc EXCEPT ![p] = "ret_raise"]
    /\ UNCHANGED <<config, vresult, senders, call, idx, key, attempts,
                   storeOps, result, store, now, grants>>

(***************************************************************************)
(* Back in send's loop.                                                    *)
(***************************************************************************)
\* SendBreak without the break: the loop goes on after a success
SendNoBreak(p) ==
    /\ pc[p] \in {"ret_true", "ret_false"}
    /\ attempts' = SetLast(p, "outcome",
                       IF pc[p] = "ret_true" THEN "True" ELSE "False")
    /\ idx' = [idx EXCEPT ![p] = @ + 1]
    /\ pc' = [pc EXCEPT ![p] = "loop"]
    /\ UNCHANGED <<config, vresult, senders, call, key, storeOps, result,
                   store, now, grants>>

\* lines 139-140, 151-152, 160: the adapter returned (True or False)
SendBreak(p) ==
    /\ pc[p] \in {"ret_true", "ret_false"}
    /\ attempts' = SetLast(p, "outcome",
                       IF pc[p] = "ret_true" THEN "True" ELSE "False")
    /\ result' = [result EXCEPT ![p] = "True"]
    /\ pc' = [pc EXCEPT ![p] = "done"]
    /\ UNCHANGED <<config, vresult, senders, call, idx, key, storeOps, store,
                   now, grants>>

\* lines 141-143, 153-155: the adapter raised; logged, next service
SendCatch(p) ==
    /\ pc[p] = "ret_raise"
    /\ attempts' = SetLast(p, "outcome", "raise")
    /\ idx' = [idx EXCEPT ![p] = @ + 1]
    /\ pc' = [pc EXCEPT ![p] = "loop"]
    /\ UNCHANGED <<config, vresult, senders, call, key, storeOps, result,
                   store, now, grants>>

\* SendExhausted one iteration early
SendExhaustedEarly(p) ==
    /\ pc[p] = "loop"
    /\ idx[p] >= Len(config.services)
    /\ result' = [result EXCEPT ![p] = NoneSent]
    /\ pc' = [pc EXCEPT ![p] = "done"]
    /\ UNCHANGED <<config, vresult, senders, call, idx, key, attempts,
                   storeOps, store, now, grants>>

\* lines 157-158: the loop ended without a success
SendExhausted(p) ==
    /\ pc[p] = "loop"
    /\ idx[p] > Len(config.services)
    /\ result' = [result EXCEPT ![p] = NoneSent]
    /\ pc' = [pc EXCEPT ![p] = "done"]
    /\ UNCHANGED <<config, vresult, senders, call, idx, key, attempts,
                   storeOps, store, now, grants>>

(***************************************************************************)
(* Time passes: Redis drops the keys whose expiry is reached, and the      *)
(* windows that end are forgotten.                                         *)
(***************************************************************************)
Tick ==
    /\ now < MaxTime
    /\ now' = now + 1
    /\ store' = [k \in {x \in DOMAIN store :
                          store[x] = NoTTL \/ now + 1 < store[x]} |-> store[k]]
    /\ grants' = {g \in grants : now + 1 < g.time + g.interval}
    /\ UNCHANGED <<config, vresult, senders, pc, call, idx, key, attempts,
                   storeOps, result>>

(***************************************************************************)
(* One sender calling send.                                                *)
(***************************************************************************)
Init ==
    /\ config \in SendConfigs
    /\ vresult = "none"
    /\ senders = {1}
    /\ InitSenders

Next ==
    \/ \E p \in senders : SendRaise(p)
    \/ \E p \in senders : SendStart(p)
    \/ \E p \in senders : SendLoop(p)
    \/ \E p \in senders : GetHit(p)
    \/ \E p \in senders : GetMiss(p)
    \/ \E p \in senders : SetKey(p)
    \/ \E p \in senders : Expire(p)
    \/ \E p \in senders : PostOk(p)
    \/ \E p \in senders : PostFail(p)
    \/ \E p \in senders : QuitOk(p)
    \/ \E p \in senders : QuitFail(p)
    \/ \E p \in senders : SendBreak(p)
    \/ \E p \in senders : SendCatch(p)
    \/ \E p \in senders : SendExhausted(p)
    \/ Tick

Spec == Init /\ [][Next]_vars


(***************************************************************************)
(* Senders that share the Redis store and call an adapter directly         *)
(* (send_pushover and send_email are public methods), each of them with    *)
(* the same settings and message: the steps of check_interval interleave.  *)
(***************************************************************************)
RaceMessage == <<"h", "i">>

\* send_pushover / send_email called: lines 202-221, 255-275
AdapterCall(p) ==
    /\ pc[p] = "idle"
    /\ \E service \in TupleSet(config.services), i \in Intervals \ {0} :
        /\ call' = [call EXCEPT ![p] = [message |-> RaceMessage, interval |-> i]]
        /\ EnterAdapter(p, <<>>, 1, service, RaceMessage, i)
    /\ storeOps' = [storeOps EXCEPT ![p] = 0]
    /\ UNCHANGED <<config, vresult, senders, idx, result, store, now, grants>>

\* the adapter returns True or False, or raises, to its caller
AdapterReturn(p) ==
    /\ pc[p] \in {"ret_true", "ret_false", "ret_raise"}
    /\ attempts' = SetLast(p, "outcome",
                       IF pc[p] = "ret_true" THEN "True"
                       ELSE IF pc[p] = "ret_false" THEN "False" ELSE "raise")
    /\ pc' = [pc EXCEPT ![p] = "idle"]
    /\ UNCHANGED <<config, vresult, senders, call, idx, key, storeOps, result,
                   store, now, grants>>

InitRace ==
    /\ config = ReadConfigFile(<<PushoverOk>>)
    /\ vresult = "none"
    /\ senders \in {{1}, {1, 2}}
    /\ InitSenders

NextRace ==
    \/ \E p \in senders : AdapterCall(p)
    \/ \E p \in senders : GetHit(p)
    \/ \E p \in senders : GetMiss(p)
    \/ \E p \in senders : SetKey(p)
    \/ \E p \in senders : Expire(p)
    \/ \E p \in senders : PostOk(p)
    \/ \E p \in senders : PostFail(p)
    \/ \E p \in senders : AdapterReturn(p)
    \/ Tick

SpecRace == InitRace /\ [][NextRace]_vars


(***************************************************************************)
(* Properties of send, the validator and the interval guard.  The sender   *)
(* observed is sender 1.                                                   *)
(***************************************************************************)
Att == attempts[1]

Blank(text) == \A i \in 1..Len(text) : text[i] \in Whitespace

ValidationErrors ==
    {MissingServices}
    \cup {InvalidService(t) : t \in {"sms"}}
    \cup {MissingSetting(t, k) : t \in {"pushover", "email"},
                                 k \in {"app_token", "api_key", "subject", "to"}}
    \cup {UnknownSetting(t, k) : t \in {"pushover", "email"}, k \in {"sound"}}

\* the outbound deliveries of this call that succeeded
Delivered == {j \in 1..Len(Att) : Att[j].post = "ok"}

\* C1: the adapters are attempted one at a time in the order of the services
\* list, the next one only after the one before raised (and was caught), and
\* the first adapter that returns without raising ends the loop: send
\* returns True and no later service is attempted.
C1_Fallback ==
    /\ Len(Att) <= Len(config.services)
    /\ \A j \in 1..Len(Att) :
          /\ Att[j].index = j
          /\ Att[j].service = config.services[j]
    /\ \A j \in 1..(Len(Att) - 1) : Att[j].outcome = "raise"
    /\ pc[1] = "loop" =>
          /\ idx[1] = Len(Att) + 1
          /\ result[1] = "none"
    /\ (Len(Att) > 0 /\ Att[Len(Att)].outcome \in {"True", "False"}) =>
          /\ pc[1] = "done"
          /\ result[1] = "True"
    /\ result[1] = "True" =>
          /\ Len(Att) > 0
          /\ Att[Len(Att)].outcome \in {"True", "False"}

\* the first adapter raised, the second returned, send returned True
C1_Witness ==
    /\ result[1] = "True"
    /\ Len(Att) = 2
    /\ Att[1].outcome = "raise"
    /\ Att[1].service # Att[2].service

\* C2: send raises "No notification could be sent" only when every entry of
\* the services list has been attempted exactly once and each attempt
\* raised; and when every attempt raised it ends with that error.
C2_AllFail ==
    /\ result[1] = NoneSent =>
          /\ Len(Att) = Len(config.services)
          /\ \A j \in 1..Len(Att) :
                Att[j].index = j /\ Att[j].outcome = "raise"
    /\ (/\ pc[1] = "done"
        /\ Len(Att) > 0
        /\ \A j \in 1..Len(Att) : Att[j].outcome = "raise") =>
          result[1] = NoneSent

C2_Witness ==
    /\ result[1] = NoneSent
    /\ Len(Att) = 2
    /\ Att[1].post = "fail"
    /\ Att[2].post = "fail"

\* C3 as stated: whenever send returns success exactly one channel made a
\* successful outbound delivery during the call.
C3_Original ==
    result[1] = "True" => Cardinality(Delivered) = 1

\* C3 amended: whenever send returns success, the adapter that returned is
\* the last one attempted and it either delivered, once, or returned "not
\* sent" because the interval guard found the key, without an outbound call;
\* every adapter attempted before it raised, and none of those delivered
\* except an email adapter whose sendmail succeeded and whose quit() raised.
C3_Amended ==
    result[1] = "True" =>
        LET last == Att[Len(Att)]
        IN  /\ last.outcome \in {"True", "False"}
            /\ last.outcome = "True" => last.post = "ok"
            /\ last.outcome = "False" =>
                /\ last.post = "none"
                /\ last.guard = "hit"
                /\ call[1].interval # 0
            /\ \A j \in 1..(Len(Att) - 1) :
                /\ Att[j].outcome = "raise"
                /\ Att[j].post = "ok" => Att[j].service = "email"

\* send returned True although the guard suppressed the only delivery tried
C3_Witness ==
    /\ result[1] = "True"
    /\ Att[Len(Att)].outcome = "False"
    /\ Delivered = {}

\* the open window of the key the sender's adapter is checking
OpenGrants(k) == {g \in grants : g.key = k}

\* C4, the steps: a check that finds no key goes on to SET and EXPIRE, after
\* which the key expires one interval later and the outbound call is next; a
\* check that finds the key returns False and writes nothing.
C4_Step ==
    /\ (pc[1] = "get" /\ pc'[1] # "get" /\ ~KeyExists(key[1])) =>
          pc'[1] = "set"
    /\ (pc[1] = "set" /\ pc'[1] # "set") =>
          /\ pc'[1] = "expire"
          /\ key[1] \in DOMAIN store'
    /\ (pc[1] = "expire" /\ pc'[1] # "expire") =>
          /\ pc'[1] = "post"
          /\ key[1] \in DOMAIN store'
          /\ store'[key[1]] = now + call[1].interval
    /\ (pc[1] = "get" /\ pc'[1] # "get" /\ KeyExists(key[1])) =>
          /\ pc'[1] = "ret_false"
          /\ store' = store
          /\ grants' = grants

\* C4, the states: a suppressed adapter made no outbound call, and once the
\* window of the last allowed check is over the key is gone, so that the
\* next check is allowed.
C4_State ==
    /\ \A j \in 1..Len(Att) :
          Att[j].guard = "hit" => Att[j].post = "none" /\ Att[j].outcome # "True"
    /\ (pc[1] = "get" /\ OpenGrants(key[1]) = {}) => ~KeyExists(key[1])
    /\ \A g \in grants : g.sender = 1 =>
          /\ g.key \in DOMAIN store
          /\ store[g.key] = g.time + g.interval

\* C4: for one sender and one (service, interval, notification): allowed
\* when the key is absent, with the key then set to expire after the
\* interval; suppressed with no outbound call and no write while the key
\* exists; allowed again once the interval has passed.
C4_Guard == [][C4_Step]_vars /\ []C4_State

\* a repeat is suppressed one second into a two second window, the expiry
\* still that of the first check
C4_Witness ==
    /\ pc[1] = "ret_false"
    /\ \E g \in OpenGrants(key[1]) :
          /\ g.time < now
          /\ store[key[1]] = g.time + g.interval
    /\ Att[Len(Att)].post = "none"

\* C5: a send that fails with a validation error or the empty message error
\* invoked no adapter, made no outbound call and no Redis round trip, and
\* left the store as it was.  (A step that keeps the clock is the sender's.)
C5_Step ==
    (/\ pc[1] \in {"idle", "done"}
     /\ pc'[1] = "done"
     /\ now' = now
     /\ result'[1] \in ValidationErrors \cup {EmptyMessage}) =>
        /\ attempts'[1] = <<>>
        /\ storeOps'[1] = 0
        /\ store' = store
        /\ grants' = grants

C5_State ==
    result[1] \in ValidationErrors \cup {EmptyMessage} =>
        /\ Att = <<>>
        /\ storeOps[1] = 0
        /\ pc[1] = "done"

C5_NoPartialAttempt == [][C5_Step]_vars /\ []C5_State

\* the second service of the list is the invalid one
C5_Witness ==
    /\ result[1] = MissingSetting("email", "to")
    /\ config.services = <<"pushover", "email">>
    /\ Att = <<>>
    /\ storeOps[1] = 0

(***************************************************************************)
(* What the specification says a valid configuration is, written from its  *)
(* table of settings.                                                      *)
(***************************************************************************)
ClaimRequired(service) ==
    IF service = "pushover" THEN <<"app_token", "api_key">>
    ELSE <<"subject", "to">>

ClaimOptional(service) == IF service = "pushover" THEN "title" ELSE "sender"

\* the settings lack key k, or give it a value of whitespace only
ClaimLacks(settings, k) ==
    \A i \in 1..Len(settings) : settings[i][1] = k => Blank(settings[i][2])

ClaimServiceOk(cfg, service) ==
    /\ service \in {"email", "pushover"}
    /\ \A n \in 1..2 : ~ClaimLacks(cfg.settings[service], ClaimRequired(service)[n])
    /\ \A i \in 1..Len(cfg.settings[service]) :
          cfg.settings[service][i][1] \in
              {ClaimRequired(service)[1], ClaimRequired(service)[2],
               ClaimOptional(service)}

ClaimAccepts(cfg) ==
    /\ Len(cfg.services) > 0
    /\ \A j \in 1..Len(cfg.services) : ClaimServiceOk(cfg, cfg.services[j])

\* C6 as stated: a message that is empty after trimming makes send fail with
\* the empty message error whatever the configuration is.
C6_Original ==
    (pc[1] = "done" /\ Blank(call[1].message)) => result[1] = EmptyMessage

\* C6 amended: a message that is empty after trimming makes send fail with
\* the empty message error when the configuration is valid; when it is not,
\* validation has run first and send fails with its error ("Missing
\* services" for a configuration without services).
C6_Amended ==
    (pc[1] = "done" /\ Blank(call[1].message)) =>
        /\ ClaimAccepts(config) => result[1] = EmptyMessage
        /\ ~ClaimAccepts(config) => result[1] \in ValidationErrors
        /\ Len(config.services) = 0 => result[1] = MissingServices

C6_Witness ==
    /\ pc[1] = "done"
    /\ call[1].message # <<>>
    /\ Blank(call[1].message)
    /\ result[1] = EmptyMessage
    /\ Len(config.services) = 2

\* C7: validate_config returns without raising exactly when the services
\* list is not empty, every listed name is email or pushover, and the
\* settings of every listed service give each required key a value that is
\* not blank and hold no key outside required and optional.
C7_Accepts ==
    vresult # "none" => (vresult = OK <=> ClaimAccepts(config))

\* a configuration of both services, one with its optional key, is accepted
C7_Witness ==
    /\ vresult = OK
    /\ config.services = <<"email", "pushover">>
    /\ HasKey(config.settings["pushover"], "title")

\* service S, listed at position j, lacks its n-th required key
ClaimDefect(j, n) ==
    /\ config.services[j] \in {"email", "pushover"}
    /\ ClaimLacks(config.settings[config.services[j]],
                  ClaimRequired(config.services[j])[n])

ClaimMessage(j, n) ==
    "Missing setting for " \o config.services[j] \o " "
        \o ClaimRequired(config.services[j])[n]

\* C8 as stated: the error names S and K whatever else is wrong.
C8_Original ==
    vresult # "none" =>
        \A j \in 1..Len(config.services), n \in 1..2 :
            ClaimDefect(j, n) => vresult = ClaimMessage(j, n)

\* C8 amended: validation fails; the error is "Missing setting for S K"
\* when every service listed before S is valid and S has every required key
\* that is checked before K.
C8_Amended ==
    vresult # "none" =>
        \A j \in 1..Len(config.services), n \in 1..2 :
            ClaimDefect(j, n) =>
                /\ vresult # OK
                /\ (/\ \A i \in 1..(j - 1) :
                          ClaimServiceOk(config, config.services[i])
                    /\ \A m \in 1..(n - 1) : ~ClaimDefect(j, m)) =>
                      vresult = ClaimMessage(j, n)

\* the second listed service lacks its second required key and has a key it
\* does not know
C8_Witness ==
    /\ vresult = "Missing setting for pushover api_key"
    /\ config.services = <<"email", "pushover">>
    /\ HasKey(config.settings["pushover"], "sound")

\* two allowed checks of one key whose windows are both open
DoubleGrant ==
    \E g, h \in grants :
        /\ g.key = h.key
        /\ g.sender # h.sender \/ g.time # h.time

\* C9: two allowed checks of one key within one interval window happen only
\* with two senders; one sender alone never gets there.
C9_Race == DoubleGrant => senders = {1, 2}

\* both senders passed the check of the same key in one window and both
\* delivered
C9_Witness ==
    \E g, h \in grants :
        /\ g.key = h.key
        /\ g.sender = 1
        /\ h.sender = 2
        /\ g.post = "ok"
        /\ h.post = "ok"

\* the key has an open window in which the delivery failed and none succeeded
Burned(k) ==
    /\ \E g \in OpenGrants(k) : g.post = "fail"
    /\ \A g \in OpenGrants(k) : g.post # "ok"

\* C10, the steps: the key is set, with its expiry, when the outbound call
\* is made; a failed outbound call leaves the store as it is; a repeat on a
\* burned key is suppressed.
C10_Step ==
    /\ (pc[1] = "expire" /\ pc'[1] = "post") =>
          /\ key[1] \in DOMAIN store'
          /\ store'[key[1]] > now
    /\ (pc[1] = "post" /\ pc'[1] = "ret_raise") => store' = store
    /\ (pc[1] = "get" /\ pc'[1] # "get" /\ Burned(key[1])) =>
          /\ pc'[1] = "ret_false"
          /\ attempts'[1][Len(Att)].post = "none"

\* C10, the states: while the window of a failed delivery is open the key
\* exists, and an adapter that was suppressed makes no outbound call.
C10_State ==
    /\ \A g \in grants : g.post = "fail" => KeyExists(g.key)
    /\ \A j \in 1..Len(Att) : Att[j].guard = "hit" => Att[j].post = "none"

\* C10: the interval key is set before the outbound call and stays when the
\* call fails, so a repeat of the notification on that service within the
\* interval makes no outbound call though nothing was delivered.
C10_FailedStillSuppresses == [][C10_Step]_vars /\ []C10_State

\* the repeat is suppressed by the key of a delivery that failed
C10_Witness ==
    /\ pc[1] = "ret_false"
    /\ Burned(key[1])
    /\ Att[Len(Att)].post = "none"

=============================================================================
